---------------------------- MODULE Spec2Model ----------------------------
(***************************************************************************)
(* Model of my_2d_robot/src/my_2d_robo_state_publisher.cpp:                *)
(*   - main(): the joint-angle generator loop (publisher node);            *)
(*   - SensorMeasurementData: the kinematics logger (subscriber callback,  *)
(*     forward kinematics, YAML serialisation, whole-log file rewrite,     *)
(*     sample-count shutdown).                                             *)
(*                                                                         *)
(* Real numbers are fixed point with FP units per 1.0 (radians, lengths).  *)
(* A text (std::string, file content) is a sequence of newline-terminated  *)
(* lines.                                                                  *)
(***************************************************************************)
EXTENDS Integers, Sequences, FiniteSets, TLC

(***************************** bounds *************************************)
\* Largest data_point_count parameter explored.
MaxTarget == 2
\* Cap on the number of callback invocations explored.
MaxDelivered == 3
\* Cap on the number of generator ticks explored.
MaxPublished == 3
\* Subscriber queue length explored (the program uses 1000).
QueueSize == 2

(************************** fixed-point reals *****************************)
\* Units per 1.0.
FP == 1000
\* M_PI in FP units.
PI_FP == 3142

Abs(v) == IF v < 0 THEN 0 - v ELSE v

\* cos(x), x in FP radians: the series 1 - x^2/2 + x^4/24.
Cos(x) ==
    LET x2 == (x * x) \div FP
        x4 == (x2 * x2) \div FP
    IN  FP - (x2 \div 2) + (x4 \div 24)

\* sin(x), x in FP radians: the series x - x^3/6 + x^5/120.
Sin(x) ==
    LET x2 == (x * x) \div FP
        x3 == (x2 * x) \div FP
        x5 == (x3 * x2) \div FP
    IN  x - (x3 \div 6) + (x5 \div 120)

(***************************** inputs *************************************)
\* Values rand() returns (non-negative ints).
RandValues == {314, 315}

\* A float: mantissa m (24 bits) and e, denoting m / 2^e.
FloatZero == [m |-> 0, e |-> 0]

\* The exponent e that puts k/100 * 2^e in [2^23, 2^24).
RECURSIVE FloatShift(_, _)
FloatShift(k, e) ==
    IF k * (2 ^ e) >= 100 * (2 ^ 23) THEN e ELSE FloatShift(k, e + 1)

\* float joint1_pos = (k / 100.0): the double k/100 rounded to the nearest
\* float, ties to even.
FloatOfHundredths(k) ==
    IF k = 0 THEN FloatZero
    ELSE LET e == FloatShift(k, 0)
             n == k * (2 ^ e)
             q == n \div 100
             r == n % 100
             up == r > 50 \/ (r = 50 /\ q % 2 = 1)
         IN  [m |-> IF up THEN q + 1 ELSE q, e |-> e]

\* float joint1_pos = ((rand() % 315) / 100.0)
DrawJointPos(r) == FloatOfHundredths(r % 315)

\* A float widened to double, in FP units (nearest).
DoubleOfFloat(f) ==
    IF f.m = 0 THEN 0
    ELSE ((f.m \div (2 ^ (f.e - 14))) * FP + (2 ^ 13)) \div (2 ^ 14)

\* The element of joint_state.position made from rand() value r.
JointPos(r) == DoubleOfFloat(DrawJointPos(r))

\* Faulty variant of JointNames: the two names exchanged.
SwappedJointNames == <<"joint2", "joint1">>

\* joint_state.name = { "joint1", "joint2" }
JointNames == <<"joint1", "joint2">>

\* What a read past the end of msg->position can yield when it does not trap.
GarbageReads == {-9999}

\* Launch-file parameters: link_1, link_2, Theta1_offset, Theta2_offset (degrees).
KinematicsConfigs ==
    { [link_1 |-> 1000, link_2 |-> 1000, Theta1_offset |-> 0,  Theta2_offset |-> 0],
      [link_1 |-> 2000, link_2 |-> 1500, Theta1_offset |-> 90, Theta2_offset |-> -45] }

\* Values of the data_point_count parameter.
TargetValues == (-1)..MaxTarget

\* The file name built by the constructor (date stamp abstracted).
OutputPath == "Output_yaml/DD_MM_YYYY_HH:MM:SS_output.yaml"

\* A sensor_msgs::JointState message.
JointState(stamp, name, position) ==
    [stamp |-> stamp, name |-> name, position |-> position]

\* Messages handed to the callback directly, the malformed ones included.
ForcedSamples ==
    { JointState(0, JointNames, p) :
        p \in { <<0, 0>>, <<1570, 0>>, <<0, 3140>>, << >>, <<3140>>, <<0, 3140, 3140>> } }

(****************************** state *************************************)
VARIABLES
    \* main(): the generator
    gen_pc,              \* "test" (line 19) | "body" (lines 21-41) | "done" (line 44)
    joint_state,         \* sensor_msgs::JointState joint_state (line 15)
    joint1_pos, joint2_pos, \* float joint1_pos, joint2_pos of the last tick (lines 23-24)
    published,           \* number of joint_pub.publish calls so far
    sent,                \* history: every message published, in order
    channel,             \* the subscriber's queue on topic joint_states
    \* roscpp
    shutdown_requested,  \* ros::shutdown() has been called
    shutdown_calls,      \* number of ros::shutdown() calls
    halted,              \* the subscription context has stopped
    \* SensorMeasurementData members
    position_joint1_, position_joint2_,
    theta1_offset_, theta2_offset_,
    link_1_, link_2_,
    my_output_,
    output_data_yaml_,
    data_count_, data_num_max_,
    \* jointStatesCallback in progress
    cb_pc,               \* "idle" | "opened" (after line 175) | "written" (after 182) | "crashed"
    msg,                 \* the callback's argument
    ee_position_,        \* local Vector2d
    fout,                \* local std::ofstream: [ok, buf]
    \* the file system: content of the file named my_output_
    file,
    \* history
    arrivals,            \* every message the callback was invoked with, in order
    errors,              \* number of ROS_ERROR reports
    last_open_ok         \* whether the last returned invocation had opened the file

gen_vars == <<gen_pc, joint_state, joint1_pos, joint2_pos, published, sent>>
ros_vars == <<shutdown_requested, shutdown_calls, halted>>
config_vars == <<theta1_offset_, theta2_offset_, link_1_, link_2_, my_output_, data_num_max_>>
logger_vars == <<position_joint1_, position_joint2_, output_data_yaml_, data_count_>>
cb_vars == <<cb_pc, msg, ee_position_, fout>>
hist_vars == <<arrivals, errors, last_open_ok>>

vars == <<gen_vars, channel, ros_vars, config_vars, logger_vars, cb_vars, file, hist_vars>>

(************************** YAML text *************************************)
\* One line of text: indentation, key, and a flow sequence of formatted numbers.
Line(indent, key, flow) == [indent |-> indent, key |-> key, flow |-> flow]

\* The line std::endl adds after the log.
EmptyLine == Line("", "", << >>)

\* YAML::Emitter << double: sign, integer digits, fraction digits.
FormatDouble(v) == [neg |-> v < 0, int |-> Abs(v) \div FP, frac |-> Abs(v) % FP]

\* The number a formatted double denotes.
ParseDouble(t) == (IF t.neg THEN -1 ELSE 1) * (t.int * FP + t.frac)

\* No message / closed stream / unset local.
NoMsg == JointState(0, << >>, << >>)
ClosedStream == [ok |-> FALSE, buf |-> << >>]
NoVector == <<0, 0>>

(************************ SensorMeasurementData ***************************)
\* Faulty variant of eePos: sine and cosine exchanged.
eePosSwapped(joint_1, joint_2) ==
    LET Theta1 == joint_1 - ((theta1_offset_ * PI_FP) \div 180)
        Theta2 == joint_2 - ((theta2_offset_ * PI_FP) \div 180)
        a1  == (Theta1 * PI_FP) \div (180 * FP)
        a12 == ((Theta1 + Theta2) * PI_FP) \div (180 * FP)
    IN  << ((link_1_ * Sin(a1)) \div FP) + ((link_2_ * Sin(a12)) \div FP),
           ((link_1_ * Cos(a1)) \div FP) + ((link_2_ * Cos(a12)) \div FP) >>

\* Eigen::Vector2d eePos(double joint_1, double joint_2)
eePos(joint_1, joint_2) ==
    LET Theta1 == joint_1 - ((theta1_offset_ * PI_FP) \div 180)
        Theta2 == joint_2 - ((theta2_offset_ * PI_FP) \div 180)
        a1  == (Theta1 * PI_FP) \div (180 * FP)
        a12 == ((Theta1 + Theta2) * PI_FP) \div (180 * FP)
    IN  << ((link_1_ * Cos(a1)) \div FP) + ((link_2_ * Cos(a12)) \div FP),
           ((link_1_ * Sin(a1)) \div FP) + ((link_2_ * Sin(a12)) \div FP) >>

\* std::string saveJointAnglesEepos(Vector2d end_effector_position): one YAML
\* sequence entry, a map of two flow sequences, then "\n".
saveJointAnglesEepos(end_effector_position) ==
    << Line("- ", "joint angles",
            <<FormatDouble(position_joint1_), FormatDouble(position_joint2_)>>),
       Line("  ", "end effector position",
            <<FormatDouble(end_effector_position[1]),
              FormatDouble(end_effector_position[2])>>) >>


\* msg->position[i] (0-based i): the element, or for a read past the end
\* (undefined behaviour) either a trap or whatever lies there.
ReadPosition(m, i) ==
    IF i < Len(m.position)
    THEN { [trap |-> FALSE, val |-> m.position[i + 1]] }
    ELSE { [trap |-> TRUE, val |-> 0] } \cup { [trap |-> FALSE, val |-> g] : g \in GarbageReads }

\* fout.open(my_output_): on success the file is truncated.
OpenTruncate(can_open) ==
    /\ fout' = [ok |-> can_open, buf |-> << >>]
    /\ file' = IF can_open THEN << >> ELSE file

\* Faulty variant of ReportOpenError: the failed open goes unreported.
ReportNothing ==
    errors' = errors

\* if (!fout) ROS_ERROR("error");
ReportOpenError ==
    errors' = IF fout'.ok THEN errors ELSE errors + 1

\* Faulty variant of KeepConfig: the callback clears the two joint offsets.
ClearOffsets ==
    /\ theta1_offset_' = 0
    /\ theta2_offset_' = 0
    /\ UNCHANGED <<link_1_, link_2_, my_output_, data_num_max_>>

\* jointStatesCallback and eePos only read theta1_offset_, theta2_offset_,
\* link_1_, link_2_, my_output_ and data_num_max_; none is assigned.
KeepConfig ==
    UNCHANGED config_vars

\* jointStatesCallback, lines 161-175: read the two positions, compute the end
\* effector position, open the output file.
CallbackEnter(m) ==
    /\ cb_pc = "idle"
    /\ Len(arrivals) < MaxDelivered
    /\ arrivals' = Append(arrivals, m)
    /\ \E r0 \in ReadPosition(m, 0), r1 \in ReadPosition(m, 1), can_open \in BOOLEAN :
          IF r0.trap \/ r1.trap
          THEN /\ cb_pc' = "crashed"
               /\ msg' = m
               /\ UNCHANGED <<position_joint1_, position_joint2_, ee_position_, fout,
                              file, errors>>
          ELSE /\ cb_pc' = "opened"
               /\ msg' = m
               /\ position_joint1_' = r0.val
               /\ position_joint2_' = r1.val
               /\ ee_position_' = eePos(r0.val, r1.val)
               /\ OpenTruncate(can_open)
               /\ ReportOpenError
    /\ KeepConfig
    /\ UNCHANGED <<output_data_yaml_, data_count_, last_open_ok, gen_vars, ros_vars>>

\* Faulty variant of StreamText: only the newest record is streamed.
StreamLastRecord(log) == SubSeq(log, Len(log) - 1, Len(log)) \o <<EmptyLine>>

\* stream << output_data_yaml_ << std::endl
StreamText(log) == log \o <<EmptyLine>>

\* Faulty variant of AppendRecord: the record is kept only when the file opened.
AppendRecordIfOpen(log) ==
    IF fout.ok THEN log \o saveJointAnglesEepos(ee_position_) ELSE log

\* Faulty variant of AppendRecord: the record is put in front of the log.
PrependRecord(log) == saveJointAnglesEepos(ee_position_) \o log

\* output_data_yaml_.append(saveJointAnglesEepos(ee_position_))
AppendRecord(log) == log \o saveJointAnglesEepos(ee_position_)

\* Faulty variant of CountSample: a sample whose write was skipped is not counted.
CountSampleOnWrite(n) == IF fout.ok THEN n + 1 ELSE n

\* data_count_ += 1
CountSample(n) == n + 1

\* jointStatesCallback, lines 177-182: append the record to the log, count the
\* sample, stream the whole log into fout.  A stream in the failed state takes
\* nothing; an open one buffers the text (the logs explored are shorter than
\* the stream buffer) until it is closed.
CallbackWrite ==
    /\ cb_pc = "opened"
    /\ output_data_yaml_' = AppendRecord(output_data_yaml_)
    /\ data_count_' = CountSample(data_count_)
    /\ IF fout.ok
       THEN fout' = [fout EXCEPT !.buf = StreamText(output_data_yaml_')]
       ELSE UNCHANGED fout
    /\ UNCHANGED file
    /\ cb_pc' = "written"
    /\ KeepConfig
    /\ UNCHANGED <<position_joint1_, position_joint2_, msg, ee_position_, channel,
                   hist_vars, gen_vars, ros_vars>>

\* Faulty variant of TargetReached: the count before the increment is compared.
TargetReachedBeforeIncrement == data_count_ - 1 = data_num_max_

\* Faulty variant of TargetReached: >= in place of ==.
TargetReachedOrPassed == data_count_ >= data_num_max_

\* if (data_count_ == data_num_max_)
TargetReached == data_count_ = data_num_max_

\* ros::shutdown()
RosShutdown ==
    /\ shutdown_requested' = TRUE
    /\ shutdown_calls' = shutdown_calls + 1

\* Faulty variant of CloseStream: the buffered text is lost when shutdown was requested
\* before the stream is closed.
CloseStreamAfterShutdown ==
    /\ file' = IF fout.ok /\ ~shutdown_requested' THEN fout.buf ELSE file
    /\ fout' = ClosedStream

\* ~ofstream at the end of the callback: flush the buffer and close.
CloseStream ==
    /\ file' = IF fout.ok THEN fout.buf ELSE file
    /\ fout' = ClosedStream

\* jointStatesCallback, lines 184-188: the termination test, then return
\* (fout goes out of scope).
CallbackReturn ==
    /\ cb_pc = "written"
    /\ IF TargetReached
       THEN RosShutdown
       ELSE UNCHANGED <<shutdown_requested, shutdown_calls>>
    /\ CloseStream
    /\ last_open_ok' = fout.ok
    /\ cb_pc' = "idle"
    /\ msg' = NoMsg
    /\ ee_position_' = NoVector
    /\ KeepConfig
    /\ UNCHANGED <<position_joint1_, position_joint2_, output_data_yaml_, data_count_,
                   channel, arrivals, errors, halted, gen_vars>>

(**************************** subscription ********************************)
\* sub_ = n->subscribe("joint_states", 1000, ...): the queued message at the
\* head is handed to the callback while the node is running.
Deliver ==
    /\ ~halted
    /\ ~shutdown_requested
    /\ channel # << >>
    /\ channel' = Tail(channel)
    /\ CallbackEnter(Head(channel))

\* The callback invoked directly with a message, whatever the node's state.
ForceDeliver ==
    /\ ~halted
    /\ \E m \in ForcedSamples : CallbackEnter(m)
    /\ UNCHANGED channel

\* The subscription context stops once shutdown was requested and the callback
\* in progress has returned.
SpinExit ==
    /\ shutdown_requested
    /\ cb_pc = "idle"
    /\ ~halted
    /\ halted' = TRUE
    /\ UNCHANGED <<gen_vars, channel, shutdown_requested, shutdown_calls, config_vars,
                   logger_vars, cb_vars, file, hist_vars>>

(****************************** main() ************************************)
\* The loop condition `ros::ok`: the function's name, not a call; as a
\* condition it is a non-null function pointer.
LoopCondition == TRUE

\* while (ros::ok)
GenLoopTest ==
    /\ gen_pc = "test"
    /\ published < MaxPublished
    /\ gen_pc' = IF LoopCondition THEN "body" ELSE "done"
    /\ UNCHANGED <<joint_state, joint1_pos, joint2_pos, published, sent, channel,
                   ros_vars, config_vars, logger_vars, cb_vars, file, hist_vars>>

\* Faulty variant of Enqueue: the new message is queued twice.
EnqueueTwice(q, m) ==
    IF Len(q) + 2 > QueueSize THEN <<m, m>> ELSE q \o <<m, m>>

\* Faulty variant of Enqueue: the new message goes to the head of the queue.
EnqueueFront(q, m) ==
    IF Len(q) >= QueueSize THEN <<m>> \o SubSeq(q, 1, Len(q) - 1) ELSE <<m>> \o q

\* A message entering the subscriber's queue of QueueSize: when full, the
\* oldest is dropped.
Enqueue(q, m) ==
    IF Len(q) >= QueueSize THEN Append(Tail(q), m) ELSE Append(q, m)

\* Loop body, lines 21-41: stamp, draw two positions, fill name and position,
\* publish, sleep.
GenTick ==
    /\ gen_pc = "body"
    /\ \E r1 \in RandValues, r2 \in RandValues :
          /\ joint1_pos' = DrawJointPos(r1)
          /\ joint2_pos' = DrawJointPos(r2)
          /\ joint_state' = JointState(published + 1, JointNames,
                                       <<JointPos(r1), JointPos(r2)>>)
    /\ channel' = Enqueue(channel, joint_state')
    /\ sent' = Append(sent, joint_state')
    /\ published' = published + 1
    /\ gen_pc' = "test"
    /\ UNCHANGED <<ros_vars, config_vars, logger_vars, cb_vars, file, hist_vars>>

(*************************** specification ********************************)
Init ==
    /\ gen_pc = "test"
    /\ joint_state = NoMsg
    /\ joint1_pos = FloatZero
    /\ joint2_pos = FloatZero
    /\ published = 0
    /\ sent = << >>
    /\ channel = << >>
    /\ shutdown_requested = FALSE
    /\ shutdown_calls = 0
    /\ halted = FALSE
    /\ position_joint1_ = 0
    /\ position_joint2_ = 0
    /\ \E c \in KinematicsConfigs :
          /\ link_1_ = c.link_1
          /\ link_2_ = c.link_2
          /\ theta1_offset_ = c.Theta1_offset
          /\ theta2_offset_ = c.Theta2_offset
    /\ my_output_ = OutputPath
    /\ output_data_yaml_ = << >>
    /\ data_count_ = 0
    /\ data_num_max_ \in TargetValues
    /\ cb_pc = "idle"
    /\ msg = NoMsg
    /\ ee_position_ = NoVector
    /\ fout = ClosedStream
    /\ file = << >>
    /\ arrivals = << >>
    /\ errors = 0
    /\ last_open_ok = FALSE

\* The pipeline: generator -> channel -> logger.
Next ==
    \/ GenLoopTest
    \/ GenTick
    \/ Deliver
    \/ CallbackWrite
    \/ CallbackReturn
    \/ SpinExit

Spec == Init /\ [][Next]_vars

\* The logger alone, its callback driven directly (no generator running).
LoggerNext ==
    \/ ForceDeliver
    \/ CallbackWrite
    \/ CallbackReturn
    \/ SpinExit

LoggerSpec == Init /\ [][LoggerNext]_vars

(************************* reading the file back **************************)
\* The YAML documents of a text: a sequence of maps, each with the keys
\* "joint angles" and "end effector position" and two-element flow sequences;
\* blank lines are skipped.  ok is FALSE for any other text.
RECURSIVE LoadYaml(_)
LoadYaml(t) ==
    IF t = << >> THEN [ok |-> TRUE, docs |-> << >>]
    ELSE IF t[1] = EmptyLine THEN LoadYaml(Tail(t))
    ELSE IF /\ Len(t) >= 2
            /\ t[1].indent = "- " /\ t[1].key = "joint angles" /\ Len(t[1].flow) = 2
            /\ t[2].indent = "  " /\ t[2].key = "end effector position"
            /\ Len(t[2].flow) = 2
         THEN LET rest == LoadYaml(SubSeq(t, 3, Len(t)))
                  doc == [ja  |-> <<ParseDouble(t[1].flow[1]), ParseDouble(t[1].flow[2])>>,
                          eep |-> <<ParseDouble(t[2].flow[1]), ParseDouble(t[2].flow[2])>>]
              IN  [ok |-> rest.ok, docs |-> <<doc>> \o rest.docs]
         ELSE [ok |-> FALSE, docs |-> << >>]

\* Number of records a text holds.
RecordCount(t) == Len(LoadYaml(t).docs)

IsPrefix(a, b) == Len(a) <= Len(b) /\ SubSeq(b, 1, Len(a)) = a

\* A sample whose positions are not exactly two.
Malformed(m) == Len(m.position) # 2

\* Every sample of a history is well formed.
AllWellFormed(h) == \A i \in 1..Len(h) : ~Malformed(h[i])

(****************************** claims ************************************)

\* C1: once data_count_ has reached data_num_max_ (>= 1), a further sample
\* handed to jointStatesCallback, a force-delivered one included, leaves
\* data_count_, the accumulated log and the output file unchanged.
\* (Stated as claimed, for histories of well-formed samples; the callback has
\* no such guard.)
C1_NoSampleProcessedAfterTarget ==
    [][(data_num_max_ >= 1 /\ Len(arrivals') > data_num_max_ /\ AllWellFormed(arrivals'))
         => UNCHANGED <<data_count_, output_data_yaml_, file>>]_vars

\* C2: after shutdown has been requested the generator loop starts no further
\* tick: its loop test does not enter the body again.
\* (Stated as claimed; the loop condition never reads the shutdown state.)
C2_GeneratorStopsAfterShutdown ==
    [][(shutdown_requested /\ gen_pc = "test") => gen_pc' # "body"]_vars

\* C3: for N <= data_num_max_, after N samples were handed to the callback
\* data_count_ = N; within the N-th invocation it is N - 1 before the
\* increment and N after it.
C3_CountEqualsDelivered ==
    Len(arrivals) <= data_num_max_ =>
        /\ cb_pc \in {"idle", "written"} => data_count_ = Len(arrivals)
        /\ cb_pc = "opened" => data_count_ = Len(arrivals) - 1

C3_Witness ==
    /\ cb_pc = "idle"
    /\ data_num_max_ >= 2
    /\ Len(arrivals) = data_num_max_
    /\ data_count_ = data_num_max_
    /\ errors >= 1

\* C4: with data_num_max_ >= 1, ros::shutdown() has been called exactly once
\* as soon as the invocation that brought data_count_ to data_num_max_ passed
\* its termination test, and not at all before; later invocations never call
\* it again.
C4_ShutdownExactlyOnce ==
    data_num_max_ >= 1 =>
        /\ shutdown_calls =
             IF \/ data_count_ > data_num_max_
                \/ (data_count_ = data_num_max_ /\ cb_pc # "written")
             THEN 1 ELSE 0
        /\ shutdown_requested <=> shutdown_calls = 1

C4_Witness ==
    /\ data_num_max_ >= 1
    /\ cb_pc = "idle"
    /\ data_count_ > data_num_max_
    /\ shutdown_calls = 1

\* C5: when an invocation that opened the file has returned, the file parses
\* to exactly data_count_ records, one per sample received, in arrival order
\* (for a sample with at least two positions, its record's joint angles are
\* the first two), the samples whose own write was skipped included.
C5_FileHoldsAllRecords ==
    (cb_pc = "idle" /\ last_open_ok) =>
        LET y == LoadYaml(file)
        IN  /\ y.ok
            /\ Len(y.docs) = data_count_
            /\ Len(y.docs) = Len(arrivals)
            /\ \A i \in 1..Len(y.docs) :
                  Len(arrivals[i].position) >= 2 =>
                      y.docs[i].ja = <<arrivals[i].position[1], arrivals[i].position[2]>>

C5_Witness ==
    /\ cb_pc = "idle"
    /\ last_open_ok
    /\ errors >= 1
    /\ data_count_ >= 2
    /\ RecordCount(file) = data_count_
    /\ arrivals[1].position # arrivals[2].position

\* C6: once the file holds at least one record, it holds a complete log of at
\* least one record at every later point, between the truncating open and the
\* write included.
\* (Stated as claimed, for histories of at most data_num_max_ well-formed
\* samples; the open truncates the file before the log is written.)
C6_FileAlwaysComplete ==
    [][(/\ RecordCount(file) >= 1
        /\ AllWellFormed(arrivals')
        /\ Len(arrivals') <= data_num_max_)
         => (LoadYaml(file').ok /\ RecordCount(file') >= 1)]_vars

\* C7: in an invocation whose open failed, the error is reported once, no step
\* changes the file, data_count_ is incremented by one, ros::shutdown() is
\* called exactly when data_count_ = data_num_max_, and the callback returns
\* (it neither traps nor stops the subscription context).
C7_OpenFailureIsNotFatal ==
    [][/\ (cb_pc = "idle" /\ cb_pc' = "opened" /\ ~fout'.ok) =>
            /\ errors' = errors + 1
            /\ file' = file
            /\ data_count_' = data_count_
       /\ (cb_pc = "opened" /\ ~fout.ok) =>
            /\ cb_pc' = "written"
            /\ errors' = errors
            /\ file' = file
            /\ data_count_' = data_count_ + 1
       /\ (cb_pc = "written" /\ ~fout.ok) =>
            /\ cb_pc' = "idle"
            /\ errors' = errors
            /\ file' = file
            /\ data_count_' = data_count_
            /\ shutdown_calls' =
                 IF data_count_ = data_num_max_ THEN shutdown_calls + 1 ELSE shutdown_calls
            /\ halted' = halted
      ]_vars

C7_Witness ==
    /\ cb_pc = "idle"
    /\ ~last_open_ok
    /\ errors = 1
    /\ data_count_ = 2
    /\ data_num_max_ = 2
    /\ shutdown_calls = 1
    /\ ~halted
    /\ RecordCount(file) = 1

\* C8: no step taken for a malformed sample (positions not exactly two
\* elements) changes data_count_, the log or the file, calls ros::shutdown()
\* or traps.
\* (Stated as claimed; the callback never checks the size of msg->position.)
C8_MalformedSampleRejected ==
    [][(arrivals' # << >> /\ Malformed(arrivals'[Len(arrivals')]))
         => /\ UNCHANGED <<data_count_, output_data_yaml_, file, shutdown_calls>>
            /\ cb_pc' # "crashed"]_vars

\* C9 as claimed: when the subscription context has stopped after the shutdown
\* request, the file holds exactly data_num_max_ records (stated for histories
\* of exactly data_num_max_ well-formed samples).
C9_HaltedFileHasTargetRecords ==
    (halted /\ Len(arrivals) = data_num_max_ /\ AllWellFormed(arrivals))
        => (LoadYaml(file).ok /\ RecordCount(file) = data_num_max_)

\* C9 amended: the context never stops inside an invocation; and when the
\* invocation that brought data_count_ to data_num_max_ has returned and had
\* opened the file, shutdown has been requested and the file holds exactly
\* data_num_max_ records.
C9_ShutdownInvocationCompletesWrite ==
    /\ halted => cb_pc = "idle"
    /\ (cb_pc = "idle" /\ data_count_ = data_num_max_ /\ last_open_ok) =>
          /\ shutdown_requested
          /\ LoadYaml(file).ok
          /\ RecordCount(file) = data_num_max_

C9_Witness ==
    /\ halted
    /\ last_open_ok
    /\ data_num_max_ >= 2
    /\ data_count_ = data_num_max_
    /\ RecordCount(file) = data_num_max_

\* C10: the log only changes in the callback's append step, which adds exactly
\* one record at the end: the joint angles read from the sample and the end
\* effector position computed from them; the log before any step is a prefix
\* of the log after it, and the log then holds data_count_ records.
C10_LogGrowsByOneRecord ==
    [][/\ IsPrefix(output_data_yaml_, output_data_yaml_')
       /\ output_data_yaml_' # output_data_yaml_ => (cb_pc = "opened" /\ cb_pc' = "written")
       /\ (cb_pc = "opened" /\ cb_pc' = "written") =>
            /\ LoadYaml(output_data_yaml_').ok
            /\ LoadYaml(output_data_yaml_').docs =
                  Append(LoadYaml(output_data_yaml_).docs,
                         [ja  |-> <<position_joint1_, position_joint2_>>,
                          eep |-> eePos(position_joint1_, position_joint2_)])
            /\ Len(msg.position) >= 2 =>
                  <<position_joint1_, position_joint2_>> = <<msg.position[1], msg.position[2]>>
            /\ RecordCount(output_data_yaml_') = data_count_'
      ]_vars

C10_Witness ==
    /\ cb_pc = "idle"
    /\ RecordCount(output_data_yaml_) = 3
    /\ LoadYaml(output_data_yaml_).docs[1] # LoadYaml(output_data_yaml_).docs[2]
    /\ LoadYaml(output_data_yaml_).docs[1].ja = <<1570, 0>>

FloatIsHundredth(f) ==
    \/ f.m = 0
    \/ \E k \in 1..314 : FloatShift(k, 0) = f.e /\ f.m * 100 = k * (2 ^ f.e)

\* A float in [0, 3.14].
FloatInRange(f) ==
    \/ f.m = 0
    \/ f.e > 22
    \/ (f.e = 22 /\ f.m * 100 <= 314 * (2 ^ 22))

\* C12: both positions the generator draws and publishes are exactly k/100
\* for an integer k in 0..314, hence in [0.00, 3.14].
\* (Stated as claimed; the quotient is stored in a float before it is
\* published as a double.)
C12_PositionsAreHundredthsInRange ==
    /\ FloatIsHundredth(joint1_pos) /\ FloatInRange(joint1_pos)
    /\ FloatIsHundredth(joint2_pos) /\ FloatInRange(joint2_pos)

\* C13: every generator tick publishes exactly one sample (and nothing else
\* publishes); the sample's names are exactly ("joint1", "joint2"), its
\* positions are exactly two, the first being joint1's draw of this tick and
\* the second joint2's; every sample published so far has this shape.
C13_OneWellFormedSamplePerTick ==
    [][/\ (gen_pc = "body" /\ gen_pc' = "test") =>
            /\ published' = published + 1
            /\ sent' = Append(sent, joint_state')
            /\ channel' # << >> /\ channel'[Len(channel')] = joint_state'
            /\ joint_state'.name = <<"joint1", "joint2">>
            /\ Len(joint_state'.position) = 2
            /\ joint_state'.position =
                  <<DoubleOfFloat(joint1_pos'), DoubleOfFloat(joint2_pos')>>
       /\ (published' # published \/ sent' # sent) => (gen_pc = "body" /\ gen_pc' = "test")
       /\ \A i \in 1..Len(sent') :
            sent'[i].name = <<"joint1", "joint2">> /\ Len(sent'[i].position) = 2
      ]_vars

C13_Witness ==
    /\ gen_pc = "test"
    /\ published = 3
    /\ Len(sent) = 3
    /\ sent[1].position = <<3140, 0>>
    /\ sent[2].position = <<0, 3140>>
    /\ joint_state = sent[3]

\* C14: with link_1 = link_2 = 1.0, both offsets 0 and a sample with positions
\* (0, 0), the end effector position the callback computes, and the one in the
\* record it logs, is (2.0, 0.0).
C14_EePosAtZero ==
    (/\ link_1_ = FP /\ link_2_ = FP
     /\ theta1_offset_ = 0 /\ theta2_offset_ = 0
     /\ msg.position = <<0, 0>>
     /\ cb_pc \in {"opened", "written"}) =>
        /\ ee_position_ = <<2 * FP, 0>>
        /\ cb_pc = "written" =>
              LET d == LoadYaml(output_data_yaml_).docs
              IN  d[Len(d)] = [ja |-> <<0, 0>>, eep |-> <<2 * FP, 0>>]

C14_Witness ==
    /\ link_1_ = FP /\ link_2_ = FP
    /\ theta1_offset_ = 0 /\ theta2_offset_ = 0
    /\ msg.position = <<0, 0>>
    /\ cb_pc = "written"
    /\ data_count_ = 2
    /\ LoadYaml(output_data_yaml_).docs[2].eep = <<2 * FP, 0>>
    /\ LoadYaml(output_data_yaml_).docs[1].eep # <<2 * FP, 0>>

\* The record text for a sample with positions p under the configuration held.
ExpectedRecord(p) ==
    LET e == eePos(p[1], p[2])
    IN  << [indent |-> "- ", key |-> "joint angles",
            flow |-> <<FormatDouble(p[1]), FormatDouble(p[2])>>],
           [indent |-> "  ", key |-> "end effector position",
            flow |-> <<FormatDouble(e[1]), FormatDouble(e[2])>>] >>

\* The log text for a sequence of samples, record after record.
RECURSIVE ExpectedLog(_)
ExpectedLog(samples) ==
    IF samples = << >> THEN << >>
    ELSE ExpectedLog(SubSeq(samples, 1, Len(samples) - 1))
            \o ExpectedRecord(samples[Len(samples)].position)

\* The samples whose record has been appended to the log.
LoggedSamples ==
    IF cb_pc = "opened" THEN SubSeq(arrivals, 1, Len(arrivals) - 1) ELSE arrivals

\* C15: the serialized log is a function of the configuration and of the
\* sequence of samples alone (so two loggers given the same configuration and
\* samples hold the same text, whatever the outcome of their file opens), a
\* record's text is a function of its joint angles and end effector position,
\* and the file holds nothing or the text of the log after one of the samples.
C15_LogIsFunctionOfConfigAndSamples ==
    /\ output_data_yaml_ = ExpectedLog(LoggedSamples)
    /\ \A i, j \in 1..Len(LoggedSamples) :
          LoggedSamples[i].position = LoggedSamples[j].position =>
             SubSeq(output_data_yaml_, 2 * i - 1, 2 * i)
               = SubSeq(output_data_yaml_, 2 * j - 1, 2 * j)
    /\ \/ file = << >>
       \/ \E k \in 1..Len(LoggedSamples) :
             file = ExpectedLog(SubSeq(LoggedSamples, 1, k)) \o <<EmptyLine>>

C15_Witness ==
    /\ cb_pc = "idle"
    /\ data_count_ = 2
    /\ errors = 1
    /\ arrivals[1].position = <<3140, 0>>
    /\ arrivals[2].position = <<3140, 0>>
    /\ Len(output_data_yaml_) = 4
    /\ SubSeq(output_data_yaml_, 1, 2) = SubSeq(output_data_yaml_, 3, 4)

\* C16: no step of the callback changes link_1_, link_2_, theta1_offset_,
\* theta2_offset_, data_num_max_ or my_output_.
C16_ConfigurationImmutable ==
    [][/\ link_1_' = link_1_ /\ link_2_' = link_2_
       /\ theta1_offset_' = theta1_offset_ /\ theta2_offset_' = theta2_offset_
       /\ data_num_max_' = data_num_max_
       /\ my_output_' = my_output_]_vars

C16_Witness ==
    /\ cb_pc = "idle"
    /\ data_count_ = 2
    /\ shutdown_requested
    /\ link_1_ = 2000 /\ link_2_ = 1500
    /\ theta1_offset_ = 90 /\ theta2_offset_ = -45
    /\ data_num_max_ = 2
    /\ my_output_ = OutputPath

\* C17: with data_num_max_ zero or negative no shutdown is ever requested,
\* however many samples were delivered (up to MaxDelivered).
C17_NoShutdownForNonPositiveTarget ==
    data_num_max_ <= 0 =>
        /\ shutdown_calls = 0
        /\ ~shutdown_requested
        /\ ~halted

C17_Witness ==
    /\ data_num_max_ = 0
    /\ data_count_ = 3
    /\ cb_pc = "idle"
    /\ shutdown_calls = 0

\* C18: data_count_ never exceeds the number of published samples; every
\* sample the callback received is one that was published, none is received
\* twice, and every record of the log carries the joint angles of the
\* published sample it was made from; also after the queue dropped a sample.
C18_OnlyPublishedSamplesLogged ==
    /\ data_count_ <= published
    /\ Len(arrivals) <= published
    /\ \A i \in 1..Len(arrivals) :
          /\ arrivals[i].stamp \in 1..Len(sent)
          /\ arrivals[i] = sent[arrivals[i].stamp]
    /\ \A i, j \in 1..Len(arrivals) : i # j => arrivals[i].stamp # arrivals[j].stamp
    /\ LET d == LoadYaml(output_data_yaml_).docs
       IN  /\ Len(d) = data_count_
           /\ Len(d) <= Len(arrivals)
           /\ \A i \in 1..Len(d) : d[i].ja = sent[arrivals[i].stamp].position

C18_Witness ==
    /\ published = 3
    /\ channel = << >>
    /\ cb_pc = "idle"
    /\ data_count_ = 2
    /\ Len(arrivals) = 2
    /\ \A i \in 1..2 : arrivals[i] # sent[1] /\ arrivals[i].position # sent[1].position
    /\ RecordCount(output_data_yaml_) = 2

==========================================================================
